---- MODULE Spec2Model ----
(***************************************************************************)
(* Product CRUD service over a key-value table (DynamoDB): the HTTP        *)
(* handlers, the product service, the repository and its list pipeline     *)
(* (store-level filter, count query, in-memory sort, offset/limit slice).  *)
(*                                                                         *)
(* Text is modelled as a sequence of character codes (1 = "a", 2 = "b"),   *)
(* so that substring search and byte-wise ordering are computed.  Prices   *)
(* are counted in thousandths (1000 = 1.00), so that the two-decimal       *)
(* formatting of the price bounds is a real conversion.  Timestamps are    *)
(* readings of a non-decreasing clock.                                     *)
(***************************************************************************)
EXTENDS Integers, Sequences, FiniteSets, TLC

VARIABLES
    store,      \* the table: a function from the ids it holds to products
    nextId,     \* the next fresh id (uuid.New never repeats an id)
    now,        \* the clock (time.Now)
    request,    \* the request being answered: its kind and raw parameters
    svcCall,    \* the filters ListWithFilters was called with, if it was
    scanned,    \* the order in which the primary scan read the table
    svcResult,  \* what ListWithFilters returned to the handler
    response,   \* the HTTP response written by the handler
    sortIn,     \* sortProducts taken alone: its arguments
    sortOut,    \* sortProducts taken alone: its result
    fault,      \* the store operation that failed while the request was served
    svcReturn,  \* the ProductService method called, its arguments and what it returned
    inflight    \* requests served side by side: where each stands between its store calls

vars == <<store, nextId, now, request, svcCall, scanned, svcResult, response,
          sortIn, sortOut, fault, svcReturn, inflight>>

-----------------------------------------------------------------------------
(* Bounds of the model *)

\* how many products are ever created
MaxProducts == 2
\* the last reading of the clock
MaxTime == 1
\* the longest sequence given to sortProducts taken alone
MaxSortLen == 3
\* the largest totalItems a substituted service reports to the handler
MaxTotal == 50

(* Constants of the program *)

\* handler: "page cannot exceed 1000"
MaxPage == 1000
\* binding:"min=1,max=100" of Limit
MaxLimit == 100
\* SetDefaults: Limit
DefaultLimit == 20
\* SetDefaults: Page
DefaultPage == 1

-----------------------------------------------------------------------------
(* Text *)

EmptyStr == << >>
StrA == <<1>>
StrAB == <<1, 2>>
StrB == <<2>>

\* Go's < on strings: byte-wise lexicographic order
RECURSIVE StrLess(_, _)
StrLess(a, b) ==
    IF b = << >> THEN FALSE
    ELSE IF a = << >> THEN TRUE
    ELSE IF Head(a) # Head(b) THEN Head(a) < Head(b)
    ELSE StrLess(Tail(a), Tail(b))

\* DynamoDB's contains(path, operand) on a string attribute: substring
Contains(s, sub) ==
    \E i \in 0..(Len(s) - Len(sub)) :
        \A k \in 1..Len(sub) : s[i + k] = sub[k]

-----------------------------------------------------------------------------
(* domain.Product and domain.NewProduct *)

Product(id, name, description, price, createdAt, updatedAt) ==
    [ID |-> id, Name |-> name, Description |-> description, Price |-> price,
     CreatedAt |-> createdAt, UpdatedAt |-> updatedAt]

NoProduct == Product(0, EmptyStr, EmptyStr, 0, 0, 0)

\* a slip: the factory checks the name and forgets the price
NewProductNameOnly(name, price) == name # EmptyStr

\* the validating factory: an error for an empty name or a negative price
NewProductOK(name, price) == name # EmptyStr /\ ~(price < 0)

NewProduct(id, name, description, price, t) ==
    Product(id, name, description, price, t, t)

-----------------------------------------------------------------------------
(* dto.ListProductsRequest: the query string and its binding *)

\* a numeric query parameter as it arrives: left out, a number, or other text
Absent == [kind |-> "absent", val |-> 0]
Num(n) == [kind |-> "num", val |-> n]
NotANumber == [kind |-> "text", val |-> 0]

Query(page, limit, name, minPrice, maxPrice, sortBy, sortOrder) ==
    [page |-> page, limit |-> limit, name |-> name, min_price |-> minPrice,
     max_price |-> maxPrice, sort_by |-> sortBy, sort_order |-> sortOrder]

SortFields == {"name", "price", "created_at", "updated_at"}
SortOrders == {"asc", "desc"}

\* form mapping: a parameter that is left out leaves the field's zero value
FormValue(p) == IF p.kind = "num" THEN p.val ELSE 0

\* form mapping fails on a numeric parameter that does not parse
MapFormOK(q) ==
    /\ q.page.kind # "text"
    /\ q.limit.kind # "text"
    /\ q.min_price.kind # "text"
    /\ q.max_price.kind # "text"

MapForm(q) ==
    [Page |-> FormValue(q.page), Limit |-> FormValue(q.limit), Name |-> q.name,
     MinPrice |-> FormValue(q.min_price), MaxPrice |-> FormValue(q.max_price),
     SortBy |-> q.sort_by, SortOrder |-> q.sort_order]

\* the binding tags, checked on the mapped struct; only sort_by and
\* sort_order carry omitempty, so min=1 is checked on a zero Page and Limit
PageTagOK(r) == r.Page >= 1
\* a slip: the tag of Limit written without max=100
LimitTagWithoutMax(r) == r.Limit >= 1
LimitTagOK(r) == r.Limit >= 1 /\ r.Limit <= MaxLimit
MinPriceTagOK(r) == r.MinPrice >= 0
MaxPriceTagOK(r) == r.MaxPrice >= 0
SortByTagOK(r) == r.SortBy = "" \/ r.SortBy \in SortFields
SortOrderTagOK(r) == r.SortOrder = "" \/ r.SortOrder \in SortOrders

ValidateStruct(r) ==
    /\ PageTagOK(r)
    /\ LimitTagOK(r)
    /\ MinPriceTagOK(r)
    /\ MaxPriceTagOK(r)
    /\ SortByTagOK(r)
    /\ SortOrderTagOK(r)

ShouldBindQueryOK(q) == MapFormOK(q) /\ ValidateStruct(MapForm(q))

SetDefaults(r) ==
    [r EXCEPT !.Page = IF r.Page <= 0 THEN DefaultPage ELSE r.Page,
              !.Limit = IF r.Limit <= 0 THEN DefaultLimit ELSE r.Limit,
              !.SortBy = IF r.SortBy = "" THEN "created_at" ELSE r.SortBy,
              !.SortOrder = IF r.SortOrder = "" THEN "desc" ELSE r.SortOrder]

GetOffset(r) == (r.Page - 1) * r.Limit

HasFilters(r) == r.Name # EmptyStr \/ r.MinPrice > 0 \/ r.MaxPrice > 0

\* ports.ProductFilters as the handler fills it
ProductFilters(r) ==
    [Name |-> r.Name, MinPrice |-> r.MinPrice, MaxPrice |-> r.MaxPrice,
     SortBy |-> r.SortBy, SortOrder |-> r.SortOrder,
     Offset |-> GetOffset(r), Limit |-> r.Limit]

-----------------------------------------------------------------------------
(* DynamoDBRepository: the filter expressions and the table's Scan *)

\* fmt.Sprintf("%.2f", x) as the table reads the number back: x > 0 in
\* thousandths, rounded to the nearest hundredth (no bound drawn below has a
\* third decimal of 5, where the binary value of the float64 decides)
Sprintf2f(x) == ((x + 5) \div 10) * 10

Condition(attr, op, val) == [attr |-> attr, op |-> op, val |-> val]

\* the conditions ListWithFilters joins with AND for the primary scan
ScanConditions(f) ==
    (IF f.Name # EmptyStr
        THEN <<Condition("name", "contains", f.Name)>> ELSE << >>)
    \o (IF f.MinPrice > 0
        THEN <<Condition("price", ">=", Sprintf2f(f.MinPrice))>> ELSE << >>)
    \o (IF f.MaxPrice > 0
        THEN <<Condition("price", "<=", Sprintf2f(f.MaxPrice))>> ELSE << >>)

\* a slip: the count query built without the upper price bound
CountConditionsNoMax(f) ==
    (IF f.Name # EmptyStr
        THEN <<Condition("name", "contains", f.Name)>> ELSE << >>)
    \o (IF f.MinPrice > 0
        THEN <<Condition("price", ">=", Sprintf2f(f.MinPrice))>> ELSE << >>)

\* the conditions getTotalCount joins with AND for the count query
CountConditions(f) ==
    IF f.Name # EmptyStr \/ f.MinPrice > 0 \/ f.MaxPrice > 0
    THEN (IF f.Name # EmptyStr
            THEN <<Condition("name", "contains", f.Name)>> ELSE << >>)
         \o (IF f.MinPrice > 0
            THEN <<Condition("price", ">=", Sprintf2f(f.MinPrice))>> ELSE << >>)
         \o (IF f.MaxPrice > 0
            THEN <<Condition("price", "<=", Sprintf2f(f.MaxPrice))>> ELSE << >>)
    ELSE << >>

\* the table evaluating one condition of a filter expression on an item
EvalCondition(c, p) ==
    IF c.op = "contains" THEN Contains(p.Name, c.val)
    ELSE IF c.op = ">=" THEN p.Price >= c.val
    ELSE p.Price <= c.val

EvalFilter(conds, p) == \A i \in 1..Len(conds) : EvalCondition(conds[i], p)

\* a slip: the Scan carried through the whole table, whatever its Limit
ScanItemsWhole(order, limit, conds) == SelectSeq(order, LAMBDA p : EvalFilter(conds, p))

\* Scan: Limit bounds the items read, the filter expression is applied to
\* the items read; limit = 0 stands for a ScanInput without Limit
ScanItems(order, limit, conds) ==
    LET read == IF limit = 0 \/ limit >= Len(order) THEN order
                ELSE SubSeq(order, 1, limit)
    IN  SelectSeq(read, LAMBDA p : EvalFilter(conds, p))

\* Scan with Select = COUNT: result.Count
ScanCount(order, conds) == Len(ScanItems(order, 0, conds))

\* the orders in which a Scan may read the table
ScanOrders(tbl) ==
    LET ids == DOMAIN tbl
        n == Cardinality(ids)
    IN  { [i \in 1..n |-> tbl[f[i]]] :
            f \in { g \in [1..n -> ids] : \A a, b \in 1..n : a # b => g[a] # g[b] } }

-----------------------------------------------------------------------------
(* DynamoDBRepository.sortProducts *)

\* the comparison function chosen by the switch on sortBy: a is sorted[i],
\* b is sorted[j]; updated_at has no case and falls to the default
Compare(sortBy, sortOrder, a, b) ==
    IF sortBy = "name"
    THEN IF sortOrder = "desc" THEN StrLess(b.Name, a.Name)
         ELSE StrLess(a.Name, b.Name)
    ELSE IF sortBy = "price"
    THEN IF sortOrder = "desc" THEN a.Price > b.Price
         ELSE a.Price < b.Price
    ELSE IF sortOrder = "desc" THEN a.CreatedAt > b.CreatedAt
         ELSE a.CreatedAt < b.CreatedAt

\* the inner loop: for j >= 0 && compare(j, j+1) { sorted[j+1] = sorted[j]; j-- }
\* (j counts from 1 here); yields the slice and the final j
RECURSIVE ShiftLoop(_, _, _, _)
ShiftLoop(sorted, j, sortBy, sortOrder) ==
    IF j >= 1 /\ Compare(sortBy, sortOrder, sorted[j], sorted[j + 1])
    THEN ShiftLoop([sorted EXCEPT ![j + 1] = sorted[j]], j - 1, sortBy, sortOrder)
    ELSE [sorted |-> sorted, j |-> j]

\* a slip: the outer loop without sorted[j+1] = key
RECURSIVE InsertLoopDropsKey(_, _, _, _)
InsertLoopDropsKey(sorted, i, sortBy, sortOrder) ==
    IF i > Len(sorted) THEN sorted
    ELSE InsertLoopDropsKey(ShiftLoop(sorted, i - 1, sortBy, sortOrder).sorted,
                            i + 1, sortBy, sortOrder)

\* the outer loop: for i := 1; i < len(sorted); i++ (i counts from 2 here)
RECURSIVE InsertLoop(_, _, _, _)
InsertLoop(sorted, i, sortBy, sortOrder) ==
    IF i > Len(sorted) THEN sorted
    ELSE LET key == sorted[i]
             after == ShiftLoop(sorted, i - 1, sortBy, sortOrder)
         IN  InsertLoop([after.sorted EXCEPT ![after.j + 1] = key],
                        i + 1, sortBy, sortOrder)

sortProducts(products, sortBy, sortOrder) ==
    IF Len(products) <= 1 THEN products
    ELSE InsertLoop(products, 2, sortBy, sortOrder)

\* sorted := make(...); copy(sorted, products): the loops write to a slice
\* with a backing array of its own
SharesBackingArray == FALSE

\* the caller's slice once sortProducts has returned
ProductsAfter(products, sortBy, sortOrder) ==
    IF SharesBackingArray THEN sortProducts(products, sortBy, sortOrder)
    ELSE products

-----------------------------------------------------------------------------
(* DynamoDBRepository.ListWithFilters and getTotalCount *)

ListResult(err, products, totalItems) ==
    [err |-> err, Products |-> products, TotalItems |-> totalItems]

\* (count, err): the count query over the whole table
getTotalCount(order, f, countFails) ==
    IF countFails THEN [err |-> TRUE, count |-> 0]
    ELSE [err |-> FALSE, count |-> ScanCount(order, CountConditions(f))]

\* the offset, then the limit, applied to the sorted slice
PageSlice(products, f) ==
    LET rest == IF f.Offset < Len(products)
                THEN SubSeq(products, f.Offset + 1, Len(products))
                ELSE << >>
    IN  IF f.Limit < Len(rest) THEN SubSeq(rest, 1, f.Limit) ELSE rest

\* a slip: the items scanned handed back beside the count query's error
ListWithFiltersPartial(order, f, scanFails, countFails) ==
    IF scanFails THEN ListResult(TRUE, << >>, 0)
    ELSE LET products == ScanItems(order, f.Limit, ScanConditions(f))
             total == getTotalCount(order, f, countFails)
         IN  ListResult(total.err,
                        PageSlice(sortProducts(products, f.SortBy, f.SortOrder), f),
                        total.count)

\* order: the order in which the primary scan reads the table
ListWithFilters(order, f, scanFails, countFails) ==
    IF scanFails THEN ListResult(TRUE, << >>, 0)
    ELSE LET products == ScanItems(order, f.Limit, ScanConditions(f))
             total == getTotalCount(order, f, countFails)
         IN  IF total.err THEN ListResult(TRUE, << >>, 0)
             ELSE ListResult(FALSE,
                             PageSlice(sortProducts(products, f.SortBy, f.SortOrder), f),
                             total.count)

-----------------------------------------------------------------------------
(* The HTTP responses *)

NoPagination ==
    [CurrentPage |-> 0, PerPage |-> 0, TotalPages |-> 0, TotalItems |-> 0,
     HasNext |-> FALSE, HasPrev |-> FALSE]

Response(status, error, products, pagination, product) ==
    [status |-> status, error |-> error, products |-> products,
     pagination |-> pagination, product |-> product]

\* no response written: the server is idle
NoResponse == Response(0, "", << >>, NoPagination, NoProduct)

ErrorResponse(status, error) ==
    Response(status, error, << >>, NoPagination, NoProduct)

\* a slip: the integer quotient, with no math.Ceil
FloorDiv(a, b) == a \div b

\* int(math.Ceil(float64(a) / float64(b))), b >= 1
CeilDiv(a, b) == IF a % b = 0 THEN a \div b ELSE (a \div b) + 1

\* dto.PaginationInfo as ProductHandler.List fills it
PaginationInfo(r, totalItems) ==
    [CurrentPage |-> r.Page,
     PerPage |-> r.Limit,
     TotalPages |-> CeilDiv(totalItems, r.Limit),
     TotalItems |-> totalItems,
     HasNext |-> r.Page * r.Limit < totalItems,
     HasPrev |-> r.Page > 1]

-----------------------------------------------------------------------------
(* ProductHandler.List *)

\* the request after binding and SetDefaults
BoundRequest(q) == SetDefaults(MapForm(q))

PageCheckOK(r) == ~(r.Page > MaxPage)

PriceRangeCheckOK(r) == ~(r.MinPrice > 0 /\ r.MaxPrice > 0 /\ r.MinPrice > r.MaxPrice)

\* the response to a request the handler rejects before calling the service
\* (NoResponse when it rejects nothing)
Rejection(q) ==
    IF ~ShouldBindQueryOK(q) THEN ErrorResponse(400, "invalid query parameters")
    ELSE IF ~PageCheckOK(BoundRequest(q))
        THEN ErrorResponse(400, "page cannot exceed 1000")
    ELSE IF ~PriceRangeCheckOK(BoundRequest(q))
        THEN ErrorResponse(400, "min_price cannot be greater than max_price")
    ELSE NoResponse

\* the response built from what the service returned
ListResponse(q, result) ==
    IF result.err THEN ErrorResponse(500, "internal server error")
    ELSE Response(200, "", result.Products,
                  PaginationInfo(BoundRequest(q), result.TotalItems), NoProduct)

\* a slip: the service reached although the request was turned away
CalledAnyway ==
    [called |-> TRUE,
     filters |-> [Name |-> EmptyStr, MinPrice |-> 0, MaxPrice |-> 0, SortBy |-> "",
                  SortOrder |-> "", Offset |-> 0, Limit |-> 0]]

NoCall == [called |-> FALSE,
           filters |-> ProductFilters(MapForm(
               Query(Absent, Absent, EmptyStr, Absent, Absent, "", "")))]
Call(f) == [called |-> TRUE, filters |-> f]

NoResult == ListResult(FALSE, << >>, 0)

NoQuery == Query(Absent, Absent, EmptyStr, Absent, Absent, "", "")
Body(name, description, price) ==
    [name |-> name, description |-> description, price |-> price]
NoBody == Body(EmptyStr, EmptyStr, 0)

Request(op, q, id, body) == [op |-> op, query |-> q, id |-> id, body |-> body]
NoRequest == Request("none", NoQuery, 0, NoBody)

-----------------------------------------------------------------------------
(* The product service and the single-record handlers *)

\* binding of CreateProductRequest: name required; price required, gt=0
ShouldBindJSONOK(body) == body.name # EmptyStr /\ body.price # 0 /\ body.price > 0

\* err.Error() of the binding failure: one line for each field that fails
NameTagError ==
    "Key: 'CreateProductRequest.Name' Error:Field validation for 'Name' failed on the 'required' tag"
PriceTagError(price) ==
    IF price = 0
    THEN "Key: 'CreateProductRequest.Price' Error:Field validation for 'Price' failed on the 'required' tag"
    ELSE "Key: 'CreateProductRequest.Price' Error:Field validation for 'Price' failed on the 'gt' tag"
ShouldBindJSONError(body) ==
    IF body.name = EmptyStr /\ ~(body.price > 0)
    THEN NameTagError \o "\n" \o PriceTagError(body.price)
    ELSE IF body.name = EmptyStr THEN NameTagError
    ELSE PriceTagError(body.price)

\* PutItem: writes the item under its id, replacing any item with that id
PutItem(tbl, p) == [i \in DOMAIN tbl \cup {p.ID} |-> IF i = p.ID THEN p ELSE tbl[i]]

\* a slip: the item marked and left in the table
DeleteItemKept(tbl, id) == tbl

\* DeleteItem: removes the item with that id, if there is one
DeleteItem(tbl, id) == [i \in DOMAIN tbl \ {id} |-> tbl[i]]

\* a slip: the reading of the clock stored as the creation time
UpdatedStampsCreation(existing, body, t) ==
    [existing EXCEPT !.Name = body.name, !.Description = body.description,
                     !.Price = body.price, !.CreatedAt = t]

\* a slip: the fields overwritten, the time of the update left as it was
UpdatedKeepsStamp(existing, body, t) ==
    [existing EXCEPT !.Name = body.name, !.Description = body.description,
                     !.Price = body.price]

\* service.Update: the product read, with its mutable fields overwritten
Updated(existing, body, t) ==
    [existing EXCEPT !.Name = body.name, !.Description = body.description,
                     !.Price = body.price, !.UpdatedAt = t]

\* the errors of the domain, by their text; NoError is nil
NoError == ""
ErrInvalidProduct == "invalid product data"
ErrNotFound == "product not found"
\* an error of the DynamoDB client, passed on as it is
StoreError == "operation error DynamoDB"

\* what a method of the service returns, and the table it leaves
Outcome(product, err, tbl) == [product |-> product, err |-> err, store |-> tbl]

\* DynamoDBRepository.GetByID
GetByID(tbl, id, getFails) ==
    IF getFails THEN Outcome(NoProduct, StoreError, tbl)
    ELSE IF id \notin DOMAIN tbl THEN Outcome(NoProduct, ErrNotFound, tbl)
    ELSE Outcome(tbl[id], NoError, tbl)

\* service.Create; id is the uuid drawn, t the reading of the clock
ServiceCreate(tbl, id, body, t, saveFails) ==
    IF ~NewProductOK(body.name, body.price)
    THEN Outcome(NoProduct, ErrInvalidProduct, tbl)
    ELSE LET product == NewProduct(id, body.name, body.description, body.price, t)
         IN  IF saveFails THEN Outcome(NoProduct, StoreError, tbl)
             ELSE Outcome(product, NoError, PutItem(tbl, product))

\* service.Get
ServiceGet(tbl, id, getFails) == GetByID(tbl, id, getFails)

\* service.Update
ServiceUpdate(tbl, id, body, t, getFails, putFails) ==
    LET got == GetByID(tbl, id, getFails)
    IN  IF got.err # NoError THEN Outcome(NoProduct, got.err, tbl)
        ELSE LET existing == Updated(got.product, body, t)
             IN  IF putFails THEN Outcome(NoProduct, StoreError, tbl)
                 ELSE Outcome(existing, NoError, PutItem(tbl, existing))

\* service.Delete
ServiceDelete(tbl, id, deleteFails) ==
    IF deleteFails THEN Outcome(NoProduct, StoreError, tbl)
    ELSE Outcome(NoProduct, NoError, DeleteItem(tbl, id))

\* the store operation that failed in a call, "none" when none did
FaultOf(out, op) == IF out.err = StoreError THEN op ELSE "none"

\* a call of the service as the state records it
Return(op, id, body, out) ==
    [op |-> op, id |-> id, body |-> body, product |-> out.product, err |-> out.err]
NoReturn == Return("none", 0, NoBody, Outcome(NoProduct, NoError, << >>))

\* ProductHandler.Create's answer to an error of the service
CreateError(err) ==
    IF err = ErrInvalidProduct THEN ErrorResponse(400, ErrInvalidProduct)
    ELSE ErrorResponse(500, "internal server error")

\* a slip: every error of the service answered as a failure of the server
AlwaysInternalError(err) == ErrorResponse(500, "internal server error")

\* the answer of ProductHandler.Get, Update and Delete to an error of the
\* service
NotFoundOr500(err) ==
    IF err = ErrNotFound THEN ErrorResponse(404, ErrNotFound)
    ELSE ErrorResponse(500, "internal server error")

-----------------------------------------------------------------------------
(* The inputs drawn *)

Ids == 1..MaxProducts

\* request bodies of Create and Update
Bodies ==
    { Body(StrAB, StrA, 1000), Body(StrB, StrB, 2000),
      Body(EmptyStr, StrA, 1000), Body(StrB, StrA, 0), Body(StrB, StrA, -1000) }

PageLimit(page, limit) == Query(Num(page), Num(limit), EmptyStr, Absent, Absent, "", "")

\* the list requests drawn while the table changes
ListQueries ==
    { PageLimit(p, l) : p \in {1, 2}, l \in {1, 2} }
    \cup { Query(Num(1), Num(2), EmptyStr, Absent, Absent, "price", "asc"),
           Query(Num(1), Num(2), EmptyStr, Absent, Absent, "name", "desc"),
           Query(Num(1), Num(2), EmptyStr, Absent, Absent, "updated_at", "asc") }
    \cup { Query(Num(1), Num(2), StrA, Absent, Absent, "", ""),
           Query(Num(1), Num(2), EmptyStr, Num(1004), Absent, "", ""),
           Query(Num(1), Num(2), EmptyStr, Absent, Num(1996), "", ""),
           Query(Num(1), Num(2), StrB, Num(1000), Num(2000), "price", "asc") }
    \cup { PageLimit(50, DefaultLimit) }
    \cup { NoQuery,
           Query(Num(1001), Absent, EmptyStr, Absent, Absent, "", ""),
           Query(Absent, Absent, EmptyStr, Num(100000), Num(50000), "", ""),
           Query(Absent, Absent, EmptyStr, Absent, Absent, "name", "asc") }

-----------------------------------------------------------------------------
(* The state machine *)

\* between two requests, and between two calls of the service
Idle == response = NoResponse /\ svcReturn = NoReturn

SortCall(products, sortBy, sortOrder) ==
    [products |-> products, sortBy |-> sortBy, sortOrder |-> sortOrder]
NoSortCall == SortCall(<< >>, "", "")
SortResult(done, products) == [done |-> done, products |-> products]
NoSortResult == SortResult(FALSE, << >>)

\* a list request between its store calls: the query in flight (pc), the
\* items the scan returned, the query during which the context was
\* cancelled, the queries issued, whether the items were sorted, and the
\* result and status once done
ListRun(pc, q, f, items, cancelledAt, queries, sorted, result, status) ==
    [pc |-> pc, query |-> q, filters |-> f, items |-> items,
     cancelledAt |-> cancelledAt, queries |-> queries, sorted |-> sorted,
     result |-> result, status |-> status]
NoListRun == ListRun("idle", NoQuery, NoCall.filters, << >>, "none", 0, FALSE, NoResult, 0)

\* an Update between its read and its write: the product it will write, and
\* the error it returned once done
UpdateRun(pc, id, existing, err) ==
    [pc |-> pc, id |-> id, existing |-> existing, err |-> err]
NoUpdateRun == UpdateRun("idle", 0, NoProduct, NoError)

\* deleted: the ids of the products a Delete has removed
Inflight(list, update, deleted) == [list |-> list, update |-> update, deleted |-> deleted]
NoInflight == Inflight(NoListRun, NoUpdateRun, {})

Init ==
    /\ store = << >>
    /\ nextId = 1
    /\ now = 0
    /\ request = NoRequest
    /\ svcCall = NoCall
    /\ scanned = << >>
    /\ svcResult = NoResult
    /\ response = NoResponse
    /\ sortIn = NoSortCall
    /\ sortOut = NoSortResult
    /\ fault = "none"
    /\ svcReturn = NoReturn
    /\ inflight = NoInflight

\* time passes
Tick ==
    /\ Idle
    /\ now < MaxTime
    /\ now' = now + 1
    /\ UNCHANGED <<store, nextId, request, svcCall, scanned, svcResult, response,
                   sortIn, sortOut, fault, svcReturn, inflight>>

\* the response has been sent, or the call of the service has returned: the
\* server is idle again
Respond ==
    /\ ~Idle
    /\ request' = NoRequest
    /\ svcCall' = NoCall
    /\ scanned' = << >>
    /\ svcResult' = NoResult
    /\ response' = NoResponse
    /\ fault' = "none"
    /\ svcReturn' = NoReturn
    /\ UNCHANGED <<store, nextId, now, sortIn, sortOut, inflight>>

\* POST /products: ProductHandler.Create, service.Create, repository Save
Create(body, saveFails) ==
    /\ Idle
    /\ nextId <= MaxProducts
    /\ request' = Request("create", NoQuery, 0, body)
    /\ IF ~ShouldBindJSONOK(body)
       THEN /\ response' = ErrorResponse(400, ShouldBindJSONError(body))
            /\ svcReturn' = NoReturn
            /\ fault' = "none"
            /\ UNCHANGED <<store, nextId>>
       ELSE LET out == ServiceCreate(store, nextId, body, now, saveFails)
            IN  /\ svcReturn' = Return("create", 0, body, out)
                /\ store' = out.store
                /\ nextId' = IF out.err = ErrInvalidProduct THEN nextId ELSE nextId + 1
                /\ fault' = FaultOf(out, "put")
                /\ response' = IF out.err # NoError THEN CreateError(out.err)
                               ELSE Response(201, "", << >>, NoPagination, out.product)
    /\ UNCHANGED <<now, svcCall, scanned, svcResult, sortIn, sortOut, inflight>>

\* GET /products/:id: ProductHandler.Get, service.Get, repository GetByID
Get(id, getFails) ==
    /\ Idle
    /\ request' = Request("get", NoQuery, id, NoBody)
    /\ LET out == ServiceGet(store, id, getFails)
       IN  /\ svcReturn' = Return("get", id, NoBody, out)
           /\ fault' = FaultOf(out, "get")
           /\ response' = IF out.err # NoError THEN NotFoundOr500(out.err)
                          ELSE Response(200, "", << >>, NoPagination, out.product)
    /\ UNCHANGED <<store, nextId, now, svcCall, scanned, svcResult, sortIn, sortOut, inflight>>

\* PUT /products/:id: ProductHandler.Update, service.Update, repository
\* GetByID then Update
Update(id, body, getFails, putFails) ==
    /\ Idle
    /\ request' = Request("update", NoQuery, id, body)
    /\ IF ~ShouldBindJSONOK(body)
       THEN /\ response' = ErrorResponse(400, ShouldBindJSONError(body))
            /\ svcReturn' = NoReturn
            /\ fault' = "none"
            /\ UNCHANGED store
       ELSE LET out == ServiceUpdate(store, id, body, now, getFails, putFails)
            IN  /\ svcReturn' = Return("update", id, body, out)
                /\ store' = out.store
                /\ fault' = FaultOf(out, IF getFails THEN "get" ELSE "put")
                /\ response' = IF out.err # NoError THEN NotFoundOr500(out.err)
                               ELSE Response(200, "", << >>, NoPagination, out.product)
    /\ UNCHANGED <<nextId, now, svcCall, scanned, svcResult, sortIn, sortOut, inflight>>

\* DELETE /products/:id: ProductHandler.Delete, service.Delete, repository Delete
Delete(id, deleteFails) ==
    /\ Idle
    /\ request' = Request("delete", NoQuery, id, NoBody)
    /\ LET out == ServiceDelete(store, id, deleteFails)
       IN  /\ svcReturn' = Return("delete", id, NoBody, out)
           /\ store' = out.store
           /\ fault' = FaultOf(out, "delete")
           /\ response' = IF out.err # NoError THEN NotFoundOr500(out.err)
                          ELSE Response(204, "", << >>, NoPagination, NoProduct)
    /\ UNCHANGED <<nextId, now, svcCall, scanned, svcResult, sortIn, sortOut, inflight>>

\* GET /products: ProductHandler.List, service.ListWithFilters and the
\* repository's ListWithFilters; order is the order the scan reads the table in
List(q, order, scanFails, countFails) ==
    /\ Idle
    /\ request' = Request("list", q, 0, NoBody)
    /\ IF Rejection(q) # NoResponse
       THEN /\ response' = Rejection(q)
            /\ svcCall' = NoCall
            /\ scanned' = << >>
            /\ svcResult' = NoResult
            /\ fault' = "none"
       ELSE LET f == ProductFilters(BoundRequest(q))
                result == ListWithFilters(order, f, scanFails, countFails)
            IN  /\ svcCall' = Call(f)
                /\ scanned' = order
                /\ svcResult' = result
                /\ fault' = IF scanFails THEN "scan"
                            ELSE IF countFails THEN "count" ELSE "none"
                /\ response' = ListResponse(q, result)
    /\ UNCHANGED <<store, nextId, now, sortIn, sortOut, svcReturn, inflight>>

Next ==
    \/ Tick
    \/ Respond
    \/ /\ Idle
       /\ \E body \in Bodies, saveFails \in BOOLEAN : Create(body, saveFails)
    \/ /\ Idle
       /\ \E id \in Ids, getFails \in BOOLEAN : Get(id, getFails)
    \/ /\ Idle
       /\ \E id \in Ids, body \in Bodies, getFails, putFails \in BOOLEAN :
             Update(id, body, getFails, putFails)
    \/ /\ Idle
       /\ \E id \in Ids, deleteFails \in BOOLEAN : Delete(id, deleteFails)
    \/ /\ Idle
       /\ \E q \in ListQueries, order \in ScanOrders(store),
             scanFails, countFails \in BOOLEAN :
             List(q, order, scanFails, countFails)

Spec == Init /\ [][Next]_vars

-----------------------------------------------------------------------------
(* ProductHandler.List over every shape of query string, the table fixed *)

\* a table after two Create requests and one Update
SomeTable ==
    PutItem(PutItem(<< >>, Updated(NewProduct(1, StrAB, StrA, 1000, 0),
                                   Body(StrAB, StrA, 1000), 1)),
            NewProduct(2, StrB, StrB, 2000, 1))

AllQueries ==
    { Query(page, limit, name, minPrice, maxPrice, sortBy, sortOrder) :
        page \in {Absent, NotANumber, Num(0), Num(1), Num(2), Num(MaxPage),
                  Num(MaxPage + 1)},
        limit \in {Absent, Num(0), Num(1), Num(MaxLimit), Num(MaxLimit + 1)},
        name \in {EmptyStr, StrA},
        minPrice \in {Absent, Num(-1000), Num(1004), Num(100000)},
        maxPrice \in {Absent, Num(-1000), Num(1996), Num(50000)},
        sortBy \in SortFields \cup {"", "invalid_field"},
        sortOrder \in SortOrders \cup {"", "up"} }

InitValidate ==
    /\ store \in {<< >>, SomeTable}
    /\ nextId = MaxProducts + 1
    /\ now = MaxTime
    /\ request = NoRequest
    /\ svcCall = NoCall
    /\ scanned = << >>
    /\ svcResult = NoResult
    /\ response = NoResponse
    /\ sortIn = NoSortCall
    /\ sortOut = NoSortResult
    /\ fault = "none"
    /\ svcReturn = NoReturn
    /\ inflight = NoInflight

NextValidate ==
    \/ Respond
    \/ /\ Idle
       /\ \E q \in AllQueries, order \in ScanOrders(store),
             scanFails, countFails \in BOOLEAN :
             List(q, order, scanFails, countFails)

SpecValidate == InitValidate /\ [][NextValidate]_vars

-----------------------------------------------------------------------------
(* ProductHandler.List against any ports.ProductService *)

\* what a service may return: an error, or products with a total
ServiceResults ==
    { ListResult(TRUE, << >>, 0) }
    \cup { ListResult(FALSE, products, total) :
             products \in { << >>, <<NewProduct(1, StrAB, StrA, 1000, 0)>> },
             total \in 0..MaxTotal }

HandlerQueries == { PageLimit(p, l) : p \in {1, 2, 3, MaxPage},
                                      l \in {1, 2, 10, DefaultLimit, MaxLimit} }

\* ProductHandler.List, the service's answer given
ListWith(q, result) ==
    /\ Idle
    /\ request' = Request("list", q, 0, NoBody)
    /\ IF Rejection(q) # NoResponse
       THEN /\ response' = Rejection(q)
            /\ svcCall' = NoCall
            /\ svcResult' = NoResult
       ELSE /\ svcCall' = Call(ProductFilters(BoundRequest(q)))
            /\ svcResult' = result
            /\ response' = ListResponse(q, result)
    /\ UNCHANGED <<store, nextId, now, scanned, sortIn, sortOut, fault, svcReturn, inflight>>

NextHandler ==
    \/ Respond
    \/ /\ Idle
       /\ \E q \in HandlerQueries, result \in ServiceResults : ListWith(q, result)

SpecHandler == Init /\ [][NextHandler]_vars

-----------------------------------------------------------------------------
(* ports.ProductService called directly, beside the HTTP handlers *)

\* service.Create called with any arguments
CallCreate(body, saveFails) ==
    /\ Idle
    /\ nextId <= MaxProducts
    /\ LET out == ServiceCreate(store, nextId, body, now, saveFails)
       IN  /\ svcReturn' = Return("create", 0, body, out)
           /\ store' = out.store
           /\ nextId' = IF out.err = ErrInvalidProduct THEN nextId ELSE nextId + 1
           /\ fault' = FaultOf(out, "put")
    /\ UNCHANGED <<now, request, svcCall, scanned, svcResult, response, sortIn, sortOut, inflight>>

\* service.Update called with any arguments
CallUpdate(id, body, getFails, putFails) ==
    /\ Idle
    /\ LET out == ServiceUpdate(store, id, body, now, getFails, putFails)
       IN  /\ svcReturn' = Return("update", id, body, out)
           /\ store' = out.store
           /\ fault' = FaultOf(out, IF getFails THEN "get" ELSE "put")
    /\ UNCHANGED <<nextId, now, request, svcCall, scanned, svcResult, response,
                   sortIn, sortOut, inflight>>

\* service.Delete called with any id
CallDelete(id, deleteFails) ==
    /\ Idle
    /\ LET out == ServiceDelete(store, id, deleteFails)
       IN  /\ svcReturn' = Return("delete", id, NoBody, out)
           /\ store' = out.store
           /\ fault' = FaultOf(out, "delete")
    /\ UNCHANGED <<nextId, now, request, svcCall, scanned, svcResult, response,
                   sortIn, sortOut, inflight>>

NextService ==
    \/ Tick
    \/ Respond
    \/ /\ Idle
       /\ \E body \in Bodies, saveFails \in BOOLEAN : Create(body, saveFails)
    \/ /\ Idle
       /\ \E id \in Ids, body \in Bodies, getFails, putFails \in BOOLEAN :
             Update(id, body, getFails, putFails)
    \/ /\ Idle
       /\ \E id \in Ids, deleteFails \in BOOLEAN : Delete(id, deleteFails)
    \/ /\ Idle
       /\ \E body \in Bodies, saveFails \in BOOLEAN : CallCreate(body, saveFails)
    \/ /\ Idle
       /\ \E id \in Ids, body \in Bodies, getFails, putFails \in BOOLEAN :
             CallUpdate(id, body, getFails, putFails)
    \/ /\ Idle
       /\ \E id \in Ids, deleteFails \in BOOLEAN : CallDelete(id, deleteFails)

SpecService == Init /\ [][NextService]_vars

-----------------------------------------------------------------------------
(* Requests served side by side: each store call is a step of its own.     *)
(* The interleavings are explored at one reading of the clock.             *)

Others == <<request, svcCall, scanned, svcResult, response, sortIn, sortOut, fault,
            svcReturn>>

\* request bodies that pass the binding
ValidBodies == { b \in Bodies : ShouldBindJSONOK(b) }

\* the list requests served beside other requests
ConcurrentQueries == { PageLimit(1, 1), PageLimit(1, 2), NoQuery }

\* a slip: the store queries called without the request's context
ContextIgnored(run) == FALSE

\* the ctx handed to client.Scan is done: the call returns its error
ContextDone(run) == run.cancelledAt # "none"

\* GET /products arrives: the handler validates; the primary scan is issued
ListBegin(q) ==
    /\ inflight.list.pc = "idle"
    /\ inflight' =
         [inflight EXCEPT !.list =
            IF Rejection(q) # NoResponse
            THEN ListRun("done", q, NoCall.filters, << >>, "none", 0, FALSE, NoResult,
                         Rejection(q).status)
            ELSE ListRun("scan", q, ProductFilters(BoundRequest(q)), << >>, "none", 1,
                         FALSE, NoResult, 0)]
    /\ UNCHANGED <<store, nextId, now, Others>>

\* the request's context is cancelled, or its deadline passes, while a store
\* query is in flight
Cancel ==
    /\ inflight.list.pc \in {"scan", "count"}
    /\ inflight.list.cancelledAt = "none"
    /\ inflight' = [inflight EXCEPT !.list.cancelledAt = inflight.list.pc]
    /\ UNCHANGED <<store, nextId, now, Others>>

\* client.Scan of the primary scan returns; a cancelled context makes it
\* return an error; on success the count query is issued
ScanReturns(order, scanFails) ==
    /\ inflight.list.pc = "scan"
    /\ LET run == inflight.list
           failed == scanFails \/ ContextDone(run)
       IN  inflight' =
             [inflight EXCEPT !.list =
                IF failed
                THEN [run EXCEPT !.pc = "done", !.result = ListResult(TRUE, << >>, 0),
                                 !.status = ListResponse(run.query,
                                               ListResult(TRUE, << >>, 0)).status]
                ELSE [run EXCEPT !.pc = "count",
                                 !.items = ScanItems(order, run.filters.Limit,
                                                     ScanConditions(run.filters)),
                                 !.queries = 2]]
    /\ UNCHANGED <<store, nextId, now, Others>>

\* client.Scan of the count query returns; on success the items are sorted,
\* the offset and the limit applied and the response written
CountReturns(order, countFails) ==
    /\ inflight.list.pc = "count"
    /\ LET run == inflight.list
           total == getTotalCount(order, run.filters,
                                  countFails \/ ContextDone(run))
           result == IF total.err THEN ListResult(TRUE, << >>, 0)
                     ELSE ListResult(FALSE,
                                     PageSlice(sortProducts(run.items, run.filters.SortBy,
                                                            run.filters.SortOrder),
                                               run.filters),
                                     total.count)
       IN  inflight' =
             [inflight EXCEPT !.list =
                [run EXCEPT !.pc = "done", !.sorted = ~total.err, !.result = result,
                            !.status = ListResponse(run.query, result).status]]
    /\ UNCHANGED <<store, nextId, now, Others>>

\* the list response has been sent
ListEnd ==
    /\ inflight.list.pc = "done"
    /\ inflight' = [inflight EXCEPT !.list = NoListRun]
    /\ UNCHANGED <<store, nextId, now, Others>>

\* PUT /products/:id arrives: service.Update reads the product and overwrites
\* its fields; the write is issued
UpdateBegin(id, body, getFails) ==
    /\ inflight.update.pc = "idle"
    /\ LET got == GetByID(store, id, getFails)
       IN  inflight' =
             [inflight EXCEPT !.update =
                IF got.err # NoError THEN UpdateRun("done", id, NoProduct, got.err)
                ELSE UpdateRun("write", id, Updated(got.product, body, now), NoError)]
    /\ UNCHANGED <<store, nextId, now, Others>>

\* repo.Update of service.Update returns
UpdateWrite(putFails) ==
    /\ inflight.update.pc = "write"
    /\ LET run == inflight.update
       IN  IF putFails
           THEN /\ inflight' = [inflight EXCEPT !.update =
                                  UpdateRun("done", run.id, NoProduct, StoreError)]
                /\ UNCHANGED store
           ELSE /\ inflight' = [inflight EXCEPT !.update.pc = "done"]
                /\ store' = PutItem(store, run.existing)
    /\ UNCHANGED <<nextId, now, Others>>

\* the response to the Update has been sent
UpdateEnd ==
    /\ inflight.update.pc = "done"
    /\ inflight' = [inflight EXCEPT !.update = NoUpdateRun]
    /\ UNCHANGED <<store, nextId, now, Others>>

\* POST /products served beside the requests in flight: one store call
CreateBeside(body, saveFails) ==
    /\ nextId <= MaxProducts
    /\ LET out == ServiceCreate(store, nextId, body, now, saveFails)
       IN  /\ store' = out.store
           /\ nextId' = IF out.err = ErrInvalidProduct THEN nextId ELSE nextId + 1
    /\ UNCHANGED <<now, Others, inflight>>

\* DELETE /products/:id served beside the requests in flight: one store call
DeleteBeside(id, deleteFails) ==
    /\ LET out == ServiceDelete(store, id, deleteFails)
       IN  /\ store' = out.store
           /\ inflight' =
                [inflight EXCEPT !.deleted =
                   IF out.err = NoError /\ id \in DOMAIN store THEN @ \cup {id} ELSE @]
    /\ UNCHANGED <<nextId, now, Others>>

NextConcurrent ==
    \/ \E q \in ConcurrentQueries : ListBegin(q)
    \/ Cancel
    \/ /\ inflight.list.pc = "scan"
       /\ \E order \in ScanOrders(store), scanFails \in BOOLEAN :
             ScanReturns(order, scanFails)
    \/ /\ inflight.list.pc = "count"
       /\ \E order \in ScanOrders(store), countFails \in BOOLEAN :
             CountReturns(order, countFails)
    \/ ListEnd
    \/ /\ inflight.update.pc = "idle"
       /\ \E id \in Ids, getFails \in BOOLEAN :
             UpdateBegin(id, Body(StrA, StrAB, 3000), getFails)
    \/ \E putFails \in BOOLEAN : UpdateWrite(putFails)
    \/ UpdateEnd
    \/ \E body \in ValidBodies, saveFails \in BOOLEAN : CreateBeside(body, saveFails)
    \/ \E id \in Ids, deleteFails \in BOOLEAN : DeleteBeside(id, deleteFails)

SpecConcurrent == Init /\ [][NextConcurrent]_vars

-----------------------------------------------------------------------------
(* sortProducts taken alone *)

\* products as Create and Update leave them: equal names, equal prices and
\* equal creation times occur, and the update order is not the creation order
SortPool ==
    { Updated(NewProduct(1, StrAB, StrA, 1000, 0), Body(StrAB, StrA, 1000), 3),
      NewProduct(2, StrB, StrB, 2000, 1),
      Updated(NewProduct(3, StrA, StrA, 1000, 1), Body(StrA, StrA, 1000), 2),
      NewProduct(4, StrAB, StrB, 3000, 2) }

SortInputs ==
    { s \in UNION { [1..n -> SortPool] : n \in 0..MaxSortLen } :
        \A i, j \in 1..Len(s) : i # j => s[i].ID # s[j].ID }

InitSort ==
    /\ store = << >>
    /\ nextId = 1
    /\ now = 0
    /\ request = NoRequest
    /\ svcCall = NoCall
    /\ scanned = << >>
    /\ svcResult = NoResult
    /\ response = NoResponse
    /\ sortIn \in { SortCall(s, sb, so) :
                      s \in SortInputs, sb \in SortFields, so \in SortOrders }
    /\ sortOut = NoSortResult
    /\ fault = "none"
    /\ svcReturn = NoReturn
    /\ inflight = NoInflight

Sort ==
    /\ ~sortOut.done
    /\ sortOut' = SortResult(TRUE,
                     sortProducts(sortIn.products, sortIn.sortBy, sortIn.sortOrder))
    /\ sortIn' = [sortIn EXCEPT !.products =
                     ProductsAfter(sortIn.products, sortIn.sortBy, sortIn.sortOrder)]
    /\ UNCHANGED <<store, nextId, now, request, svcCall, scanned, svcResult,
                   response, fault, svcReturn, inflight>>

NextSort == Sort

SpecSort == InitSort /\ [][NextSort]_vars

-----------------------------------------------------------------------------
(* What the list pipeline is specified to compute *)

\* a product satisfies the request's filter: name substring, inclusive bounds
Matches(f, p) ==
    /\ f.Name # EmptyStr => Contains(p.Name, f.Name)
    /\ f.MinPrice > 0 => p.Price >= f.MinPrice
    /\ f.MaxPrice > 0 => p.Price <= f.MaxPrice

MatchingIds(f) == { i \in DOMAIN store : Matches(f, store[i]) }

\* the sort key of a is not after the sort key of b
KeyLeq(sortBy, a, b) ==
    IF sortBy = "name" THEN ~StrLess(b.Name, a.Name)
    ELSE IF sortBy = "price" THEN a.Price <= b.Price
    ELSE IF sortBy = "updated_at" THEN a.UpdatedAt <= b.UpdatedAt
    ELSE a.CreatedAt <= b.CreatedAt

\* keys non-decreasing for asc, non-increasing for desc
InOrder(s, sortBy, sortOrder) ==
    \A i, j \in 1..Len(s) :
        i < j => IF sortOrder = "desc" THEN KeyLeq(sortBy, s[j], s[i])
                 ELSE KeyLeq(sortBy, s[i], s[j])

\* the sequences that list the products of the given ids once each
Listings(ids) ==
    LET n == Cardinality(ids)
    IN  { [i \in 1..n |-> store[g[i]]] :
            g \in { h \in [1..n -> ids] : \A a, b \in 1..n : a # b => h[a] # h[b] } }

\* positions [offset, offset + limit) of s
PageOf(s, offset, limit) ==
    IF offset >= Len(s) THEN << >>
    ELSE SubSeq(s, offset + 1,
                IF offset + limit < Len(s) THEN offset + limit ELSE Len(s))

ListCalled == request.op = "list" /\ svcCall.called
ListSucceeded == ListCalled /\ ~svcResult.err /\ response.status = 200

\* C1: the items ListWithFilters returns are positions [offset, offset+limit)
\* of the full set of stored products matching the filter, sorted by the
\* requested field and direction
C1_PageOfFullSortedMatches ==
    ListSucceeded =>
        \E s \in Listings(MatchingIds(svcCall.filters)) :
            /\ InOrder(s, svcCall.filters.SortBy, svcCall.filters.SortOrder)
            /\ svcResult.Products =
                   PageOf(s, svcCall.filters.Offset, svcCall.filters.Limit)

\* C2: for sort field name, price or created_at, sortProducts returns keys
\* non-decreasing for asc and non-increasing for desc, for inputs of any length
C2_SortedInRequestedOrder ==
    (sortOut.done /\ sortIn.sortBy \in {"name", "price", "created_at"}) =>
        InOrder(sortOut.products, sortIn.sortBy, sortIn.sortOrder)

\* C3: a page holds at most limit items, and exactly limit items whenever
\* page * limit <= totalItems
C3_PageLength ==
    ListSucceeded =>
        LET r == BoundRequest(request.query)
            n == Len(response.products)
        IN  /\ n <= r.Limit
            /\ r.Page * r.Limit <= response.pagination.TotalItems => n = r.Limit

\* C4: totalItems is the number of stored products that match the name,
\* min-price and max-price filter
C4_TotalItemsCountsMatches ==
    ListSucceeded =>
        svcResult.TotalItems = Cardinality(MatchingIds(svcCall.filters))

-----------------------------------------------------------------------------
(* What the parameter rules of the list request say *)

Given(p) == p.kind = "num"
Omitted(p) == p.kind = "absent"

\* a parameter the rules accept: left out (a default applies) or in range
PageAcceptable(q) == Omitted(q.page) \/ (Given(q.page) /\ q.page.val \in 1..MaxPage)
LimitAcceptable(q) ==
    Omitted(q.limit) \/ (Given(q.limit) /\ q.limit.val \in 1..MaxLimit)
SortAcceptable(q) ==
    /\ q.sort_by \in SortFields \cup {""}
    /\ q.sort_order \in SortOrders \cup {""}
PriceInverted(q) ==
    /\ Given(q.min_price) /\ Given(q.max_price)
    /\ q.min_price.val # 0 /\ q.max_price.val # 0
    /\ q.min_price.val > q.max_price.val
PricesAcceptable(q) ==
    /\ Omitted(q.min_price) \/ (Given(q.min_price) /\ q.min_price.val >= 0)
    /\ Omitted(q.max_price) \/ (Given(q.max_price) /\ q.max_price.val >= 0)
    /\ ~PriceInverted(q)

ListAnswered == request.op = "list" /\ response # NoResponse

\* C5: a list request without page, limit, sort_by and sort_order is accepted
\* and processed with page 1, limit 20: the service is called with Limit = 20
\* and Offset = 0, and the response reports current_page 1 and per_page 20
C5_DefaultsAccepted ==
    (/\ ListAnswered
     /\ Omitted(request.query.page) /\ Omitted(request.query.limit)
     /\ request.query.sort_by = "" /\ request.query.sort_order = ""
     /\ PricesAcceptable(request.query)) =>
        /\ response.status # 400
        /\ svcCall.called
        /\ svcCall.filters.Limit = DefaultLimit
        /\ svcCall.filters.Offset = 0
        /\ svcCall.filters.SortBy = "created_at"
        /\ svcCall.filters.SortOrder = "desc"
        /\ response.status = 200 =>
              /\ response.pagination.CurrentPage = DefaultPage
              /\ response.pagination.PerPage = DefaultLimit

\* C6: in a successful list response total_pages = ceil(totalItems / limit),
\* has_next holds exactly when page * limit < totalItems, has_prev exactly
\* when page > 1, and current_page and per_page echo the request
C6_PaginationMetadata ==
    (/\ ListSucceeded
     /\ Given(request.query.page) /\ request.query.page.val \in 1..MaxPage
     /\ Given(request.query.limit) /\ request.query.limit.val \in 1..MaxLimit) =>
        LET page == request.query.page.val
            limit == request.query.limit.val
            total == svcResult.TotalItems
            pg == response.pagination
        IN  /\ pg.TotalItems = total
            /\ pg.TotalPages >= 0
            /\ pg.TotalPages * limit >= total
            /\ (pg.TotalPages - 1) * limit < total
            /\ pg.HasNext <=> (page * limit < total)
            /\ pg.HasPrev <=> (page > 1)
            /\ pg.CurrentPage = page
            /\ pg.PerPage = limit

\* C6 witness: page 2, limit 10, 50 items: 5 pages, a next and a previous page
C6_Witness ==
    /\ ListSucceeded
    /\ request.query.page = Num(2) /\ request.query.limit = Num(10)
    /\ svcResult.TotalItems = 50
    /\ response.pagination.TotalPages = 5
    /\ response.pagination.HasNext /\ response.pagination.HasPrev

\* C7: a list request whose page exceeds 1000, nothing else supplied, is
\* rejected with status 400 and the error "page cannot exceed 1000"
C7_PageTooLargeRejected ==
    (/\ ListAnswered
     /\ Given(request.query.page) /\ request.query.page.val > MaxPage
     /\ Omitted(request.query.limit)
     /\ request.query.name = EmptyStr
     /\ Omitted(request.query.min_price) /\ Omitted(request.query.max_price)
     /\ request.query.sort_by = "" /\ request.query.sort_order = "") =>
        /\ response.status = 400
        /\ response.error = "page cannot exceed 1000"

\* C8: a list request with min_price and max_price both given, both non-zero
\* and min_price > max_price is rejected with status 400 and the error
\* "min_price cannot be greater than max_price"; with either bound zero or
\* left out no request is rejected for this reason
C8_PriceRangeRejected ==
    /\ (/\ ListAnswered
        /\ PriceInverted(request.query)
        /\ request.query.max_price.val > 0
        /\ PageAcceptable(request.query)
        /\ LimitAcceptable(request.query)
        /\ SortAcceptable(request.query)) =>
           /\ response.status = 400
           /\ response.error = "min_price cannot be greater than max_price"
    /\ (ListAnswered /\ ~PriceInverted(request.query)) =>
           response.error # "min_price cannot be greater than max_price"

\* C9: a list request with a non-empty sort_by outside name, price,
\* created_at, updated_at or a non-empty sort_order outside asc, desc is
\* rejected with status 400; every value inside those sets is accepted
C9_SortValuesChecked ==
    /\ (ListAnswered /\ ~SortAcceptable(request.query)) => response.status = 400
    /\ (/\ ListAnswered
        /\ request.query.sort_by \in SortFields
        /\ request.query.sort_order \in SortOrders
        /\ PageAcceptable(request.query)
        /\ LimitAcceptable(request.query)
        /\ PricesAcceptable(request.query)) => response.status # 400

\* C10: a list request is rejected with status 400 when limit is given
\* outside 1..100 or a price bound is negative; every filter that reaches the
\* service has 1 <= Limit <= 100, Offset = (page - 1) * Limit for a page in
\* 1..1000, MinPrice >= 0 and MaxPrice >= 0
C10_ServiceFiltersInRange ==
    /\ (/\ ListAnswered
        /\ \/ Given(request.query.limit) /\ request.query.limit.val \notin 1..MaxLimit
           \/ Given(request.query.min_price) /\ request.query.min_price.val < 0
           \/ Given(request.query.max_price) /\ request.query.max_price.val < 0)
          => response.status = 400 /\ ~svcCall.called
    /\ ListCalled =>
          /\ svcCall.filters.Limit \in 1..MaxLimit
          /\ \E page \in 1..MaxPage :
                svcCall.filters.Offset = (page - 1) * svcCall.filters.Limit
          /\ svcCall.filters.MinPrice >= 0
          /\ svcCall.filters.MaxPrice >= 0

\* C10 witness: the service is called for the last page of the largest size
C10_Witness ==
    /\ ListCalled
    /\ svcCall.filters.Limit = MaxLimit
    /\ svcCall.filters.Offset = (MaxPage - 1) * MaxLimit
    /\ svcCall.filters.MinPrice > 0

-----------------------------------------------------------------------------
(* What a list request that fails leaves behind *)

ListRejected == request.op = "list" /\ response.status = 400

\* C11: a list request rejected by validation (binding failure, page > 1000,
\* min_price > max_price) makes no service call and no store query, neither
\* scan nor count, and leaves the store as it was
C11_RejectedListTouchesNothing ==
    [][(Idle /\ request'.op = "list" /\ response'.status = 400) =>
          /\ ~svcCall'.called
          /\ scanned' = << >>
          /\ svcResult' = NoResult
          /\ store' = store]_vars

\* C11 witness: page 1001 turned away over a table that holds products
C11_Witness ==
    /\ ListRejected
    /\ response.error = "page cannot exceed 1000"
    /\ store # << >>
    /\ ~svcCall.called

ListFailed == request.op = "list" /\ fault \in {"scan", "count"}

\* C12: when the primary scan or the count query fails, ListWithFilters
\* returns an error with no items and no totalItems, and the response is
\* status 500 with the error "internal server error", no products and no
\* text of the store's error
C12_FailedListAnswers500 ==
    ListFailed =>
        /\ svcCall.called
        /\ svcResult.err
        /\ svcResult.Products = << >>
        /\ svcResult.TotalItems = 0
        /\ response = ErrorResponse(500, "internal server error")

\* C12 witness: the count query fails after the scan read two products
C12_Witness ==
    /\ ListFailed
    /\ fault = "count"
    /\ Len(scanned) = 2
    /\ ScanItems(scanned, svcCall.filters.Limit, ScanConditions(svcCall.filters)) # << >>
    /\ response.status = 500

\* C13: a valid list request whose offset (page - 1) * limit is at or beyond
\* the number of matching products (page=50, limit=20 over 2 products)
\* succeeds with an empty item list, no error, and totalItems equal to the
\* number of stored products that match
C13_PageBeyondData ==
    (/\ ListCalled
     /\ fault = "none"
     /\ svcCall.filters.Offset >= Cardinality(MatchingIds(svcCall.filters))) =>
        /\ ListSucceeded
        /\ svcResult.Products = << >>
        /\ response.products = << >>
        /\ svcResult.TotalItems = Cardinality(MatchingIds(svcCall.filters))
        /\ response.pagination.TotalItems = Cardinality(MatchingIds(svcCall.filters))

\* C14: every item ListWithFilters returns satisfies the request's filter:
\* the name contains filter.Name when it is non-empty, the price is
\* >= MinPrice when MinPrice > 0 and <= MaxPrice when MaxPrice > 0, for
\* every bound the request can carry, bounds of more than two decimals too
C14_ReturnedItemsMatch ==
    ListSucceeded =>
        \A i \in 1..Len(svcResult.Products) :
            Matches(svcCall.filters, svcResult.Products[i])

\* C15: a second ListWithFilters call with the same filter against the
\* unchanged store, the store free to return the scan's items in any order,
\* returns the same item sequence and the same totalItems as the first
C15_RepeatedListIdentical ==
    ListSucceeded =>
        \A order \in ScanOrders(store) :
            LET again == ListWithFilters(order, svcCall.filters, FALSE, FALSE)
            IN  /\ again.Products = svcResult.Products
                /\ again.TotalItems = svcResult.TotalItems

-----------------------------------------------------------------------------
(* What sortProducts is specified to do with the direction and the field *)

Reverse(s) == [i \in 1..Len(s) |-> s[Len(s) + 1 - i]]

Opposite(sortOrder) == IF sortOrder = "desc" THEN "asc" ELSE "desc"

\* no two products of s have the same sort key
DistinctKeys(s, sortBy) ==
    \A i, j \in 1..Len(s) :
        i # j => ~(KeyLeq(sortBy, s[i], s[j]) /\ KeyLeq(sortBy, s[j], s[i]))

\* C16: for an input with pairwise distinct sort keys and a sort field in
\* name, price, created_at, what sortProducts returns for asc is exactly the
\* reverse of what it returns for desc
C16_AscReversesDesc ==
    (/\ sortOut.done
     /\ sortIn.sortBy \in {"name", "price", "created_at"}
     /\ DistinctKeys(sortIn.products, sortIn.sortBy)) =>
        sortOut.products =
            Reverse(sortProducts(sortIn.products, sortIn.sortBy,
                                 Opposite(sortIn.sortOrder)))

\* C17: with sort_by=updated_at the items come back in chronological order of
\* their updatedAt, ascending or descending as requested, also when the
\* products' updatedAt order is not their createdAt order
C17_SortedByUpdatedAt ==
    (sortOut.done /\ sortIn.sortBy = "updated_at") =>
        InOrder(sortOut.products, "updated_at", sortIn.sortOrder)

-----------------------------------------------------------------------------
(* What Create, Update and Delete are specified to keep *)

\* arguments the factory must refuse
InvalidProductData(body) == body.name = EmptyStr \/ body.price < 0

\* C18: Create with an empty name or a negative price returns
\* ErrInvalidProduct and no product and writes nothing to the store, and the
\* HTTP layer answers such a request with status 400
C18_InvalidCreateRefused ==
    [][/\ (Idle /\ svcReturn'.op = "create" /\ InvalidProductData(svcReturn'.body)) =>
            /\ svcReturn'.err = ErrInvalidProduct
            /\ svcReturn'.product = NoProduct
            /\ store' = store
       /\ (Idle /\ request'.op = "create" /\ InvalidProductData(request'.body)) =>
            /\ response'.status = 400
            /\ response'.product = NoProduct
            /\ store' = store]_vars

\* C18 witness: Create called with a negative price over a table that holds
\* a product
C18_Witness ==
    /\ svcReturn.op = "create"
    /\ svcReturn.body.name # EmptyStr /\ svcReturn.body.price < 0
    /\ svcReturn.err = ErrInvalidProduct
    /\ store # << >>

\* C19: after any sequence of ProductService Create, Update and Delete calls
\* with arbitrary arguments, every product in the store has a non-empty name
\* and a price >= 0
C19_StoredProductsValid ==
    \A i \in DOMAIN store :
        store[i].Name # EmptyStr /\ store[i].Price >= 0

\* C20: the clock never going back, after any sequence of Create, Update and
\* Delete every stored product has updatedAt >= createdAt, and a product
\* just created has updatedAt = createdAt
C20_UpdatedNotBeforeCreated ==
    /\ \A i \in DOMAIN store : store[i].UpdatedAt >= store[i].CreatedAt
    /\ (svcReturn.op = "create" /\ svcReturn.err = NoError) =>
          /\ svcReturn.product.UpdatedAt = svcReturn.product.CreatedAt
          /\ svcReturn.product.CreatedAt = now
          /\ store[svcReturn.product.ID] = svcReturn.product

\* C20 witness: a product is created beside one updated after its creation
C20_Witness ==
    /\ svcReturn.op = "create" /\ svcReturn.err = NoError
    /\ svcReturn.product.CreatedAt > 0
    /\ \E i \in DOMAIN store : store[i].UpdatedAt > store[i].CreatedAt

\* C21: a successful Update of an existing product replaces its name,
\* description and price by the values given and refreshes updatedAt, leaves
\* its id and createdAt and every other stored product as they were; when
\* the store write fails, Update returns an error and no product and the
\* store is unchanged
C21_UpdateFrame ==
    [][(Idle /\ svcReturn'.op = "update") =>
          LET id == svcReturn'.id
              body == svcReturn'.body
          IN  /\ svcReturn'.err = NoError =>
                    /\ id \in DOMAIN store
                    /\ DOMAIN store' = DOMAIN store
                    /\ store'[id].Name = body.name
                    /\ store'[id].Description = body.description
                    /\ store'[id].Price = body.price
                    /\ store'[id].UpdatedAt = now
                    /\ store'[id].UpdatedAt >= store[id].UpdatedAt
                    /\ store'[id].ID = store[id].ID
                    /\ store'[id].CreatedAt = store[id].CreatedAt
                    /\ \A j \in DOMAIN store : j # id => store'[j] = store[j]
                    /\ svcReturn'.product = store'[id]
              /\ fault' = "put" =>
                    /\ svcReturn'.err # NoError
                    /\ svcReturn'.product = NoProduct
                    /\ store' = store]_vars

\* C21 witness: one of two stored products has been updated after its creation
C21_Witness ==
    /\ svcReturn.op = "update" /\ svcReturn.err = NoError
    /\ Cardinality(DOMAIN store) = 2
    /\ store[svcReturn.id].UpdatedAt > store[svcReturn.id].CreatedAt
    /\ store[svcReturn.id].Name = svcReturn.body.name

\* C22: Get and Update for an id that is not in the store return ErrNotFound,
\* answered with status 404 (not the 400 of validation errors, not the 500
\* of store failures), and Update then writes nothing to the store
C22_MissingIdNotFound ==
    [][(/\ Idle
        /\ svcReturn'.op \in {"get", "update"}
        /\ svcReturn'.id \notin DOMAIN store
        /\ fault' = "none") =>
           /\ svcReturn'.err = ErrNotFound
           /\ svcReturn'.product = NoProduct
           /\ response'.status = 404
           /\ response'.error = ErrNotFound
           /\ response'.product = NoProduct
           /\ store' = store]_vars

\* C22 witness: an Update for an id the table does not hold, beside a
\* product it holds
C22_Witness ==
    /\ request.op = "update"
    /\ svcReturn.op = "update" /\ svcReturn.err = ErrNotFound
    /\ response.status = 404
    /\ store # << >> /\ svcReturn.id \notin DOMAIN store

\* C24: once Delete(id) has succeeded, and until a later operation writes
\* that id again, Get(id) returns ErrNotFound and no list result holds a
\* product with that id; Delete of an id the store does not hold leaves the
\* store unchanged, and Delete changes no product but the one with that id
C24_DeleteRemovesOnlyThatId ==
    [][/\ (Idle /\ svcReturn'.op = "delete" /\ svcReturn'.err = NoError) =>
            /\ DOMAIN store' = DOMAIN store \ {svcReturn'.id}
            /\ \A j \in DOMAIN store' : store'[j] = store[j]
            /\ svcReturn'.id \notin DOMAIN store => store' = store
       /\ (Idle /\ svcReturn'.op = "get" /\ svcReturn'.id \notin DOMAIN store
                 /\ fault' = "none") =>
            /\ svcReturn'.err = ErrNotFound
            /\ svcReturn'.product = NoProduct
       /\ (Idle /\ request'.op = "list") =>
            \A i \in 1..Len(svcResult'.Products) :
                /\ svcResult'.Products[i].ID \in DOMAIN store
                /\ svcResult'.Products[i] = store[svcResult'.Products[i].ID]]_vars

\* C24 witness: one of two products created has been deleted, the other is
\* still stored
C24_Witness ==
    /\ svcReturn.op = "delete" /\ svcReturn.err = NoError
    /\ response.status = 204
    /\ nextId > MaxProducts
    /\ DOMAIN store # {} /\ svcReturn.id \notin DOMAIN store

\* the ids of the stored products a filter expression selects
Selected(conds) == { i \in DOMAIN store : EvalFilter(conds, store[i]) }

\* C25: for every filter (Name empty or not, MinPrice zero or positive,
\* MaxPrice zero or positive) the expression and values getTotalCount builds
\* for the count query select exactly the products that the filter built
\* for the primary scan in ListWithFilters selects
C25_CountFilterIsScanFilter ==
    ListCalled =>
        /\ CountConditions(svcCall.filters) = ScanConditions(svcCall.filters)
        /\ Selected(CountConditions(svcCall.filters))
              = Selected(ScanConditions(svcCall.filters))
        /\ ~svcResult.err =>
              svcResult.TotalItems
                = Cardinality(Selected(ScanConditions(svcCall.filters)))

\* C25 witness: a filter with a name and both price bounds selects one of
\* two stored products
C25_Witness ==
    /\ ListSucceeded
    /\ svcCall.filters.Name # EmptyStr
    /\ svcCall.filters.MinPrice > 0 /\ svcCall.filters.MaxPrice > 0
    /\ Cardinality(DOMAIN store) = 2
    /\ svcResult.TotalItems = 1

\* a and b have the same sort key
SameKey(sortBy, a, b) == KeyLeq(sortBy, a, b) /\ KeyLeq(sortBy, b, a)

\* a stands before b in s
Before(s, a, b) == \E k1, k2 \in 1..Len(s) : k1 < k2 /\ s[k1] = a /\ s[k2] = b

\* C26: sortProducts is stable: for every input, sort field and direction,
\* two products with equal sort keys stand in the output in the relative
\* order they had in the input
C26_SortStable ==
    sortOut.done =>
        \A i, j \in 1..Len(sortIn.products) :
            (i < j /\ SameKey(sortIn.sortBy, sortIn.products[i], sortIn.products[j])) =>
                Before(sortOut.products, sortIn.products[i], sortIn.products[j])

\* how many times p stands in s
Count(s, p) == Cardinality({ k \in 1..Len(s) : s[k] = p })

\* C27: for every input, sort field and direction, what sortProducts
\* returns is a permutation of the input (the same products, each as many
\* times, none lost, none twice), and the input slice is left as it was
C27_SortPermutes ==
    [][(~sortOut.done /\ sortOut'.done) =>
          /\ Len(sortOut'.products) = Len(sortIn.products)
          /\ \A p \in SortPool :
                Count(sortOut'.products, p) = Count(sortIn.products, p)
          /\ sortIn'.products = sortIn.products]_vars

\* C27 witness: three products returned in another order than given
C27_Witness ==
    /\ sortOut.done
    /\ Len(sortIn.products) = 3
    /\ sortOut.products # sortIn.products

\* C28: the primary scan being issued with Limit equal to the page size and
\* the offset applied to that scan's result, every list request with
\* page >= 2 returns an empty item list whatever the store holds, also when
\* has_next and total_pages computed from totalItems say the page exists
C28_LaterPagesEmpty ==
    (ListSucceeded /\ BoundRequest(request.query).Page >= 2) =>
        /\ svcCall.filters.Offset >= svcCall.filters.Limit
        /\ svcResult.Products = << >>
        /\ response.products = << >>

\* C28 witness: page 2 of size 1 over two products comes back empty while
\* the response counts two pages
C28_Witness ==
    /\ ListSucceeded
    /\ response.pagination.CurrentPage = 2
    /\ response.pagination.TotalItems = 2
    /\ response.pagination.TotalPages = 2
    /\ response.pagination.HasPrev
    /\ response.products = << >>

-----------------------------------------------------------------------------
(* What holds of requests served side by side *)

\* C23: when the request context is cancelled or times out before or during
\* either store query of a list request, the query in flight fails, no
\* further store query is issued, and ListWithFilters returns an error and
\* no result, without sorting or paginating
C23_CancelledListStops ==
    LET run == inflight.list
    IN  /\ run.cancelledAt = "scan" => run.pc \in {"scan", "done"} /\ run.queries = 1
        /\ run.cancelledAt = "count" => run.pc \in {"count", "done"} /\ run.queries = 2
        /\ (run.pc = "done" /\ run.cancelledAt # "none") =>
              /\ run.result.err
              /\ run.result.Products = << >>
              /\ run.result.TotalItems = 0
              /\ ~run.sorted
              /\ run.status # 200

\* C23 witness: the context is cancelled during the count query, after the
\* scan has returned items
C23_Witness ==
    /\ inflight.list.pc = "done"
    /\ inflight.list.cancelledAt = "count"
    /\ inflight.list.items # << >>
    /\ inflight.list.result.err

\* C29: under any interleaving of concurrent requests a product id that has
\* been deleted is never present in the store again afterwards; an Update
\* that read the product before a concurrent Delete of the same id must not
\* write it back after the Delete completed
C29_DeletedStaysDeleted == inflight.deleted \cap DOMAIN store = {}

\* C30: in every successful list result the number of returned items is at
\* most totalItems, also when Create or Delete requests run between the
\* scan query and the separate count query of the list request
C30_ItemsAtMostTotal ==
    LET run == inflight.list
    IN  (run.pc = "done" /\ ~run.result.err) =>
            Len(run.result.Products) <= run.result.TotalItems

====
